---------------------------- MODULE Spec2Model ----------------------------
(***************************************************************************)
(* Model of text-classification-mlops_version_finale/app/page.tsx:         *)
(*   - POST, the simulated classification handler (lines 107-131);         *)
(*   - Home, the React component with its classifyText callback            *)
(*     (lines 9-101).                                                      *)
(* Two state machines over one set of variables: ServerSpec runs the       *)
(* handler on concurrent requests of arbitrary callers, ClientSpec runs    *)
(* one mounted Home component against the endpoint it fetches.             *)
(***************************************************************************)
EXTENDS Integers, Sequences, FiniteSets, TLC

\* ------------------------------------------------------------------ bounds

\* Number of requests the handler may be processing at the same time.
NumReqs == 2

\* Bits of one Math.random() result: r = k / 2^RandBits, 0 <= k < 2^RandBits
\* (an IEEE double carries 53; the arithmetic below rounds as doubles do).
RandBits == 2

\* Longest text typed into the textarea.
MaxLen == 2

\* Cap on the invocations of classifyText awaiting a promise at one time.
MaxCalls == 2

RECURSIVE Pow2(_)
Pow2(n) == IF n = 0 THEN 1 ELSE 2 * Pow2(n - 1)

Reqs == 1..NumReqs

\* ------------------------------------------------------- JavaScript values

\* A JavaScript value, as far as the handler and the component look at it:
\* its type tag t, and its content (b, n or s according to t).
JsVal(t, b, n, s) == [t |-> t, b |-> b, n |-> n, s |-> s]

Undefined == JsVal("undefined", FALSE, 0, <<>>)
Null      == JsVal("null", FALSE, 0, <<>>)
Num(n)    == JsVal("number", FALSE, n, <<>>)
Str(s)    == JsVal("string", FALSE, 0, s)
Obj       == JsVal("object", FALSE, 0, <<>>)

\* typeof v
TypeOf(v) == IF v.t = "null" THEN "object" ELSE v.t

\* !v : undefined, null, false, 0 and "" are falsy, everything else truthy.
Not(v) ==
    CASE v.t = "undefined" -> TRUE
      [] v.t = "null"      -> TRUE
      [] v.t = "boolean"   -> ~v.b
      [] v.t = "number"    -> v.n = 0
      [] v.t = "string"    -> v.s = <<>>
      [] OTHER             -> FALSE

\* Values of the text field of a JSON object body: no such field, null, the
\* empty string, a number, an object, a string with content.
TextVals ==
    { Undefined, Null, Str(<<>>), Num(7), Obj, Str(<<"o", "k">>) }

\* What a request carries: a body request.json() cannot parse, or a JSON
\* value (null, a number, an object with or without text).
Body(k, text) == [k |-> k, text |-> text]

Bodies ==
    { Body(k, Undefined) : k \in {"unparsable", "null", "number"} }
        \cup { Body("object", v) : v \in TextVals }

\* request.json() rejects (SyntaxError) on a body that is not JSON.
JsonThrows(body) == body.k = "unparsable"

\* const { text } = <parsed body> throws a TypeError on null; a primitive or
\* an array has no text property.
DestructureThrows(body) == body.k = "null"

Destructure(body) == IF body.k = "object" THEN body.text ELSE Undefined

\* ---------------------------------------------------------------- responses

NoData == [sentiment |-> "", confidence |-> 0]

Response(status, data) == [status |-> status, data |-> data, parses |-> TRUE]

\* NextResponse.json({ error: ... }, { status })
ErrorResponse(status) == Response(status, NoData)

\* ------------------------------------------------------------ Math.random()

RandDen == Pow2(RandBits)

\* Numerators k of the values k / RandDen that Math.random() returns: [0, 1).
RandomValues == 0..(RandDen - 1)

\* Math.random() > 0.5
IsPositive(k) == 2 * k > RandDen

\* Confidences are numerators over ConfDen = 2 * RandDen.
ConfDen == 2 * RandDen

\* IEEE round-to-nearest, ties-to-even, of x / ConfDen in [1/2, 1]: the
\* doubles there are the even numerators.
RoundTiesToEven(x) ==
    IF x % 2 = 0 THEN x
    ELSE IF ((x - 1) \div 2) % 2 = 0 THEN x - 1 ELSE x + 1

\* Mutant of Confidence: 0.5 + Math.random(), the halving forgotten.
ConfidenceNotHalved(k) == RoundTiesToEven(RandDen + 2 * k)

\* 0.5 + Math.random() * 0.5 : the product is exact, the sum is rounded.
Confidence(k) == RoundTiesToEven(RandDen + k)

\* Mutant of Sentiment: a third label for the other branch.
SentimentNeutral(isPositive) == IF isPositive THEN "positive" ELSE "neutral"

\* isPositive ? "positive" : "negative"
Sentiment(isPositive) == IF isPositive THEN "positive" ELSE "negative"

\* NextResponse.json({ sentiment: ..., confidence })
Success(isPositive, confidence) ==
    Response(200, [sentiment |-> Sentiment(isPositive), confidence |-> confidence])

\* ------------------------------------------------------------------- state

VARIABLES
    req,          \* server: per request slot, the handler's invocation
    text,         \* Home: useState("")
    prediction,   \* Home: useState(null)
    loading,      \* Home: useState(false)
    error,        \* Home: useState(null)
    calls,        \* Home: the invocations of classifyText awaiting a promise
    shown         \* history: the error last shown after each kind of failure

clientVars == <<text, prediction, loading, error, calls, shown>>
vars == <<req, text, prediction, loading, error, calls, shown>>

\* --------------------------------------------------------------- POST

IdleReq ==
    [pc |-> "idle", body |-> Body("object", Undefined), text |-> Undefined,
     isPositive |-> FALSE, confidence |-> 0, classified |-> FALSE,
     responses |-> <<>>]

\* return NextResponse.json(...): the invocation ends with this response.
Respond(r, resp) ==
    [r EXCEPT !.pc = "done", !.responses = Append(@, resp)]

\* if (!text || typeof text !== "string")
Invalid(v) == Not(v) \/ TypeOf(v) # "string"

\* A caller sends a request: POST starts and awaits request.json().
Post(i, body) ==
    /\ req[i].pc = "idle"
    /\ req' = [req EXCEPT ![i] = [IdleReq EXCEPT !.pc = "json", !.body = body]]
    /\ UNCHANGED clientVars

\* Mutant of RequestJsonSettles: the handler without its try/catch, so that
\* an exception ends the invocation with no response.
RequestJsonSettlesUncaught(i) ==
    /\ req[i].pc = "json"
    /\ LET r == req[i]
           t == Destructure(r.body)
       IN  IF JsonThrows(r.body) \/ DestructureThrows(r.body)
           THEN req' = [req EXCEPT ![i] = [r EXCEPT !.pc = "thrown"]]
           ELSE IF Invalid(t)
           THEN req' = [req EXCEPT ![i] =
                           Respond([r EXCEPT !.text = t], ErrorResponse(400))]
           ELSE \E k1, k2 \in RandomValues :
                    req' = [req EXCEPT ![i] =
                               [r EXCEPT !.pc = "timer", !.text = t,
                                         !.classified = TRUE,
                                         !.isPositive = IsPositive(k1),
                                         !.confidence = Confidence(k2)]]
    /\ UNCHANGED clientVars

\* request.json() settles; the handler runs up to its next await or return.
RequestJsonSettles(i) ==
    /\ req[i].pc = "json"
    /\ LET r == req[i]
           t == Destructure(r.body)
       IN  IF JsonThrows(r.body) \/ DestructureThrows(r.body)
           THEN req' = [req EXCEPT ![i] = Respond(r, ErrorResponse(500))]
           ELSE IF Invalid(t)
           THEN req' = [req EXCEPT ![i] =
                           Respond([r EXCEPT !.text = t], ErrorResponse(400))]
           ELSE \E k1, k2 \in RandomValues :
                    req' = [req EXCEPT ![i] =
                               [r EXCEPT !.pc = "timer", !.text = t,
                                         !.classified = TRUE,
                                         !.isPositive = IsPositive(k1),
                                         !.confidence = Confidence(k2)]]
    /\ UNCHANGED clientVars

\* The 1000 ms timer fires: the handler returns the success response.
TimerFires(i) ==
    /\ req[i].pc = "timer"
    /\ req' = [req EXCEPT ![i] =
           Respond(@, Success(@.isPositive, @.confidence))]
    /\ UNCHANGED clientVars

\* The caller has its response; the slot serves the next request.
Collect(i) ==
    /\ req[i].pc = "done"
    /\ req' = [req EXCEPT ![i] = IdleReq]
    /\ UNCHANGED clientVars

ServerNext ==
    \E i \in Reqs :
        \/ \E body \in Bodies : Post(i, body)
        \/ RequestJsonSettles(i)
        \/ TimerFires(i)
        \/ Collect(i)

\* --------------------------------------------------------------- Home

\* Characters typed: white space and anything else.
Chars == {" ", "a"}

Strings == UNION { [1..n -> Chars] : n \in 0..MaxLen }

IsWhiteSpace(c) == c = " "

\* String.prototype.trim(): white space removed from both ends.
RECURSIVE TrimStart(_)
TrimStart(s) ==
    IF s # <<>> /\ IsWhiteSpace(Head(s)) THEN TrimStart(Tail(s)) ELSE s

RECURSIVE TrimEnd(_)
TrimEnd(s) ==
    IF s # <<>> /\ IsWhiteSpace(s[Len(s)])
    THEN TrimEnd(SubSeq(s, 1, Len(s) - 1)) ELSE s

Trim(s) == TrimEnd(TrimStart(s))

\* Mutant of Blank: the text tested without trim().
BlankUntrimmed(s) == Not(Str(s))

\* if (!text.trim())
Blank(s) == Not(Str(Trim(s)))

\* setError("Veuillez entrer un texte à classifier")
MsgEnterText == "Veuillez entrer un texte a classifier"

\* setError("Une erreur est survenue lors de la classification")
MsgFailed == "Une erreur est survenue lors de la classification"

\* error === null
NoError == "null"

\* Mutant of Disabled: the button never disabled.
DisabledNever(ld) == FALSE

\* <Button onClick={classifyText} disabled={loading}>
Disabled(ld) == ld

\* catch (err) { setError(...) }
Catch(err) == MsgFailed

\* Mutant of Finally: no finally block, loading left as it is.
FinallyMissing(ld) == ld

\* finally { setLoading(false) }
Finally(ld) == FALSE

\* response.ok: a status in 200..299
Ok(resp) == resp.status \in 200..299

\* The success responses of POST, over all its random draws.
Successes == { Success(IsPositive(k1), Confidence(k2)) : k1, k2 \in RandomValues }

\* What POST answers to a request with this body.
PostAnswers(body) ==
    IF JsonThrows(body) \/ DestructureThrows(body) THEN { ErrorResponse(500) }
    ELSE IF Invalid(Destructure(body)) THEN { ErrorResponse(400) }
    ELSE Successes

\* What whatever else serves /api/classify (a proxy, the Python API the
\* handler stands in for) may answer: a validation error, a server error, a
\* success status with a body that is not JSON.
EndpointAnswers ==
    { ErrorResponse(400), ErrorResponse(500),
      [Response(200, NoData) EXCEPT !.parses = FALSE] }

\* JSON.stringify({ text })
RequestBody(t) == Body("object", Str(t))

\* How the promise of fetch("/api/classify", ...) can settle: rejected (the
\* service cannot be reached), or resolved with a response.
FetchOutcomes(t) ==
    { [rejected |-> TRUE, resp |-> ErrorResponse(0)] }
        \cup { [rejected |-> FALSE, resp |-> a] :
                 a \in PostAnswers(RequestBody(t)) \cup EndpointAnswers }

Remove(s, k) == SubSeq(s, 1, k - 1) \o SubSeq(s, k + 1, Len(s))

\* The kind of failure a settled fetch stands for, for the history variable.
FailureKind(o) ==
    IF o.rejected \/ o.resp.status >= 500 THEN "unavailable" ELSE "validation"

\* An invocation of classifyText suspended at await fetch(...): the request
\* carries the text of the render the click happened in.
AwaitFetch(t) == [pc |-> "fetch", text |-> t, resp |-> ErrorResponse(0)]

\* An invocation suspended at await response.json(): it holds the response,
\* and reads the text no more.
AwaitJson(resp) == [pc |-> "json", text |-> <<>>, resp |-> resp]

\* onChange={(e) => setText(e.target.value)}
SetText(s) ==
    /\ text' = s
    /\ UNCHANGED <<req, prediction, loading, error, calls, shown>>

\* A click on the button runs classifyText up to its return or first await.
ClassifyText ==
    /\ ~Disabled(loading)
    /\ Len(calls) < MaxCalls
    /\ IF Blank(text)
       THEN /\ error' = MsgEnterText
            /\ UNCHANGED <<loading, calls>>
       ELSE /\ loading' = TRUE
            /\ error' = NoError
            /\ calls' = Append(calls, AwaitFetch(text))
    /\ UNCHANGED <<req, text, prediction, shown>>

\* The fetch of invocation k settles; classifyText runs on to its next await
\* (response.json()) or through catch and finally to its end.
FetchSettles(k) ==
    /\ k \in 1..Len(calls)
    /\ calls[k].pc = "fetch"
    /\ \E o \in FetchOutcomes(calls[k].text) :
        IF ~o.rejected /\ Ok(o.resp)
        THEN /\ calls' = [calls EXCEPT ![k] = AwaitJson(o.resp)]
             /\ UNCHANGED <<loading, error, shown>>
        ELSE /\ calls' = Remove(calls, k)
             /\ error' = Catch(o)
             /\ loading' = Finally(loading)
             /\ shown' = [shown EXCEPT ![FailureKind(o)] = error']
    /\ UNCHANGED <<req, text, prediction>>

\* response.json() of invocation k settles; classifyText runs to its end.
ResponseJsonSettles(k) ==
    /\ k \in 1..Len(calls)
    /\ calls[k].pc = "json"
    /\ calls' = Remove(calls, k)
    /\ loading' = Finally(loading)
    /\ IF calls[k].resp.parses
       THEN /\ prediction' = calls[k].resp.data
            /\ UNCHANGED error
       ELSE /\ error' = Catch(calls[k].resp)
            /\ UNCHANGED prediction
    /\ UNCHANGED <<req, text, shown>>

ClientNext ==
    \/ \E s \in Strings : SetText(s)
    \/ ClassifyText
    \/ \E k \in 1..MaxCalls : FetchSettles(k)
    \/ \E k \in 1..MaxCalls : ResponseJsonSettles(k)

Init ==
    /\ req = [i \in Reqs |-> IdleReq]
    /\ text = <<>>
    /\ prediction = Null
    /\ loading = FALSE
    /\ error = NoError
    /\ calls = <<>>
    /\ shown = [k \in {"validation", "unavailable"} |-> NoError]

ServerSpec == Init /\ [][ServerNext]_vars

ClientSpec == Init /\ [][ClientNext]_vars

\* Provided every request settles: the promise of each fetch and of each
\* response.json() is eventually resolved or rejected.
FairClientSpec ==
    /\ ClientSpec
    /\ WF_vars(\E k \in 1..MaxCalls : FetchSettles(k))
    /\ WF_vars(\E k \in 1..MaxCalls : ResponseJsonSettles(k))

\* The event loop runs every settled promise's continuation and every expired
\* timer: no handler invocation waits forever on request.json() or setTimeout.
FairServerSpec ==
    /\ ServerSpec
    /\ \A i \in Reqs :
        /\ WF_vars(RequestJsonSettles(i))
        /\ WF_vars(TimerFires(i))

\* ------------------------------------------------------ claims on POST

Answered(i) == req[i].pc = "done" /\ Len(req[i].responses) >= 1
Answer(i) == req[i].responses[1]
ValidText(v) == v.t = "string" /\ v.s # <<>>

\* C1: a request whose text is empty, missing or not a string is answered
\* with status 400 and is never classified; status 200 is returned only for
\* a request whose text is a non-empty string.
C1_InvalidTextGets400 ==
    \A i \in Reqs :
        /\ ~ValidText(Destructure(req[i].body)) => ~req[i].classified
        /\ Answered(i) =>
            /\ ~ValidText(Destructure(req[i].body)) => Answer(i).status = 400
            /\ Answer(i).status = 200 => ValidText(Destructure(req[i].body))

Malformed(body) == JsonThrows(body) \/ ~ValidText(Destructure(body))

\* C2: every malformed request (a body that is not JSON included) is
\* answered, and answered with a 4xx status, never with a 5xx one.
C2_MalformedGets4xx ==
    \A i \in Reqs :
        (req[i].pc = "done" /\ Malformed(req[i].body))
        => /\ Len(req[i].responses) = 1
           /\ Answer(i).status \in 400..499

\* C3: the confidence of every success response lies in [0, 1], and is never
\* below 0.5.
C3_ConfidenceInUnitInterval ==
    \A i \in Reqs :
        (Answered(i) /\ Answer(i).status = 200)
        => /\ 0 <= Answer(i).data.confidence
           /\ Answer(i).data.confidence <= ConfDen
           /\ 2 * Answer(i).data.confidence >= ConfDen

\* C3 witness: a success response whose confidence is exactly 1.
C3_Witness ==
    \E i \in Reqs :
        Answered(i) /\ Answer(i).status = 200 /\ Answer(i).data.confidence = ConfDen

\* C4: the sentiment of every success response is "positive" or "negative".
C4_LabelInLabelSet ==
    \A i \in Reqs :
        (Answered(i) /\ Answer(i).status = 200)
        => Answer(i).data.sentiment \in {"positive", "negative"}

\* C4 witness: both labels are returned, to two requests being served together.
C4_Witness ==
    \E i, j \in Reqs :
        /\ Answered(i) /\ Answer(i).status = 200
        /\ Answered(j) /\ Answer(j).status = 200
        /\ Answer(i).data.sentiment = "positive"
        /\ Answer(j).data.sentiment = "negative"

\* C5: two requests carrying the same text are answered with the same label
\* and the same confidence.
C5_SameTextSameAnswer ==
    \A i, j \in Reqs :
        (/\ Answered(i) /\ Answer(i).status = 200
         /\ Answered(j) /\ Answer(j).status = 200
         /\ Destructure(req[i].body) = Destructure(req[j].body))
        => /\ Answer(i).data.sentiment = Answer(j).data.sentiment
           /\ Answer(i).data.confidence = Answer(j).data.confidence

\* C6: every request gets exactly one response, eventually, whatever the
\* other requests do: a step of one invocation changes nothing of another,
\* and a response once given is not changed.
C6_RequestsIsolated ==
    /\ \A i \in Reqs : (req[i].pc # "idle") ~> (req[i].pc = "done")
    /\ [](\A i \in Reqs :
            /\ Len(req[i].responses) <= 1
            /\ req[i].pc = "done" <=> Len(req[i].responses) = 1)
    /\ [][\A i, j \in Reqs :
            (i # j /\ req'[i] # req[i]) => req'[j] = req[j]]_vars

\* C6 witness: one request has failed while another is still waiting on its
\* timer.
C6_Witness ==
    \E i, j \in Reqs :
        /\ Answered(i) /\ Answer(i).status = 500
        /\ req[j].pc = "timer"

\* ------------------------------------------------------ claims on Home

\* The text is empty or consists only of white space.
OnlyWhiteSpace(s) == \A n \in 1..Len(s) : IsWhiteSpace(s[n])

\* C7: the error shown after a validation (400) response differs from the
\* error shown when the service cannot be reached or answers with a server
\* error.
C7_DistinctErrorStates ==
    (shown["validation"] # NoError /\ shown["unavailable"] # NoError)
        => shown["validation"] # shown["unavailable"]

\* C8: classifyText on an empty or white-space-only text sends no request,
\* sets error to the 'enter a text' message and leaves loading (false) and
\* prediction as they were.
C8_BlankTextSendsNothing ==
    [][(ClassifyText /\ OnlyWhiteSpace(text))
        => /\ calls' = calls
           /\ error' = MsgEnterText
           /\ ~loading /\ ~loading'
           /\ prediction' = prediction]_vars

\* C8 witness: classifyText has run on a white-space-only text while a
\* prediction was shown.
C8_Witness ==
    /\ text # <<>> /\ OnlyWhiteSpace(text)
    /\ error = MsgEnterText
    /\ prediction # Null
    /\ calls = <<>>

\* C9: a request that was sent and settles leads to loading = false; a
\* success leaves error null and prediction equal to the response body, a
\* failure leaves error non-null and prediction as it was.
C9_LoadingEndsOutcomeShown ==
    /\ (calls # <<>>) ~> ~loading
    /\ [][\A k \in 1..Len(calls) :
            (ResponseJsonSettles(k) /\ calls[k].resp.parses)
            => /\ ~loading'
               /\ error' = NoError
               /\ prediction' = calls[k].resp.data]_vars
    /\ [][\A k \in 1..Len(calls) :
            \/ FetchSettles(k) /\ Len(calls') < Len(calls)
            \/ ResponseJsonSettles(k) /\ ~calls[k].resp.parses
            => /\ ~loading'
               /\ error' # NoError
               /\ prediction' = prediction]_vars

\* C9 witness: a request has succeeded after an earlier one had failed.
C9_Witness ==
    /\ shown["unavailable"] # NoError
    /\ prediction # Null /\ error = NoError /\ ~loading

\* C10: at most one request is in flight; the button is disabled exactly
\* while loading is true, and loading is true exactly while a request is in
\* flight.
C10_AtMostOneInFlight ==
    /\ Len(calls) <= 1
    /\ loading <=> calls # <<>>
    /\ Disabled(loading) <=> loading

\* C10 witness: a second request is in flight after the first one has
\* settled, the text having been edited since it was sent.
C10_Witness ==
    /\ Len(calls) = 1 /\ calls[1].text # text
    /\ loading
    /\ prediction # Null

=============================================================================
